---- MODULE Spec2Model ----
(***************************************************************************)
(* Thalem Space, script.js: the catalogue fetch (fetchTools), the listing  *)
(* renderer (loadTools), the detail renderer (loadToolDetail) and the      *)
(* formatting helpers, as a state machine.                                 *)
(*                                                                         *)
(* Text is a sequence of one-character strings, so that encoding, decoding *)
(* and pattern matching are computed character by character.  A number is  *)
(* an integer count of thousandths (12000 is 12, 9500 is 9.5).  An         *)
(* optional JSON field is a sequence: << >> when the key is missing or     *)
(* null, <<v>> when it carries v.                                          *)
(***************************************************************************)
EXTENDS Integers, Sequences, FiniteSets, TLC

(* ----------------------------- bounds --------------------------------- *)

\* longest catalogue array the data file holds
MaxLen == 2
\* how many times loadTools is invoked on one page (SpecRepeat)
MaxCalls == 2
\* largest whole part of a price (SpecPrice)
MaxWhole == 12
\* most fragments a video URL is assembled from (SpecVideo)
MaxUrlToks == 3

(* ------------------------------ text ---------------------------------- *)

RECURSIVE Flatten(_)
Flatten(ss) ==
    IF ss = << >> THEN << >> ELSE Head(ss) \o Flatten(Tail(ss))

StartsAt(s, i, p) ==
    /\ i >= 1
    /\ i + Len(p) - 1 <= Len(s)
    /\ SubSeq(s, i, i + Len(p) - 1) = p

\* String.prototype.includes
Includes(s, p) ==
    \E i \in 1..(Len(s) + 1) : StartsAt(s, i, p)

\* first index >= i holding character c, or Len(s) + 1
RECURSIVE IndexFrom(_, _, _)
IndexFrom(s, i, c) ==
    IF i > Len(s) THEN Len(s) + 1
    ELSE IF s[i] = c THEN i
    ELSE IndexFrom(s, i + 1, c)

\* String.prototype.split on a one-character separator
RECURSIVE Split(_, _)
Split(s, c) ==
    LET k == IndexFrom(s, 1, c)
    IN  IF k > Len(s) THEN <<s>>
        ELSE <<SubSeq(s, 1, k - 1)>> \o Split(SubSeq(s, k + 1, Len(s)), c)

\* decimal digits of a natural number
RECURSIVE Digits(_)
Digits(n) ==
    LET d == <<"0", "1", "2", "3", "4", "5", "6", "7", "8", "9">>[(n % 10) + 1]
    IN  IF n < 10 THEN <<d>> ELSE Digits(n \div 10) \o <<d>>

(* ------------------- encodeURIComponent / URLSearchParams ------------- *)

\* a lone UTF-16 surrogate, which JSON "\ud800" delivers
Surrogate == "\\uD800"

\* the unreserved characters (A-Z a-z 0-9 - _ . ! ~ * ' ( )) that occur in the model
Unreserved ==
    {"a", "b", "c", "x", "X", "s", "l", "u", "g", "v", "r", "e", "f",
     "0", "1", "2", "3", "5", "6", "B", "D",
     "-", "_", ".", "!", "~", "*", "'", "(", ")"}

\* percent-escape of one character outside the unreserved set
Escape(c) ==
    CASE c = " " -> <<"%", "2", "0">>
      [] c = "%" -> <<"%", "2", "5">>
      [] c = "&" -> <<"%", "2", "6">>
      [] c = "+" -> <<"%", "2", "B">>
      [] c = "=" -> <<"%", "3", "D">>
      [] c = "?" -> <<"%", "3", "F">>
      [] c = "/" -> <<"%", "2", "F">>

\* encodeURIComponent raises URIError on a lone surrogate
EncodeThrows(s) ==
    \E i \in 1..Len(s) : s[i] = Surrogate

RECURSIVE encodeURIComponent(_)
encodeURIComponent(s) ==
    IF s = << >> THEN << >>
    ELSE (IF Head(s) \in Unreserved THEN <<Head(s)>> ELSE Escape(Head(s)))
         \o encodeURIComponent(Tail(s))

\* the character a %XY escape stands for, << >> when XY is not a known byte
Unescape(x, y) ==
    CASE x = "2" /\ y = "0" -> <<" ">>
      [] x = "2" /\ y = "5" -> <<"%">>
      [] x = "2" /\ y = "6" -> <<"&">>
      [] x = "2" /\ y = "B" -> <<"+">>
      [] x = "3" /\ y = "D" -> <<"=">>
      [] x = "3" /\ y = "F" -> <<"?">>
      [] x = "2" /\ y = "F" -> <<"/">>
      [] OTHER -> << >>

\* application/x-www-form-urlencoded decoding of one name or value:
\* "+" is a space, %XY is the byte XY, an invalid escape stays as written
RECURSIVE FormDecode(_)
FormDecode(s) ==
    IF s = << >> THEN << >>
    ELSE IF Head(s) = "+" THEN <<" ">> \o FormDecode(Tail(s))
    ELSE IF Head(s) = "%" /\ Len(s) >= 3 /\ Unescape(s[2], s[3]) # << >>
         THEN Unescape(s[2], s[3]) \o FormDecode(SubSeq(s, 4, Len(s)))
    ELSE <<Head(s)>> \o FormDecode(Tail(s))

\* new URLSearchParams(search): the query without its leading "?", cut at
\* every "&"; an empty piece is skipped
SearchParts(search) ==
    LET q  == IF search # << >> /\ Head(search) = "?" THEN Tail(search) ELSE search
        ps == Split(q, "&")
    IN  SelectSeq(ps, LAMBDA p : p # << >>)

\* one piece cut at its first "=", name and value decoded
SearchPair(p) ==
    LET k == IndexFrom(p, 1, "=")
    IN  <<FormDecode(SubSeq(p, 1, k - 1)), FormDecode(SubSeq(p, k + 1, Len(p)))>>

\* URLSearchParams.get: << >> for null, <<value>> for the first pair named so
ParamsGet(search, name) ==
    LET ps   == SearchParts(search)
        hits == {i \in 1..Len(ps) : SearchPair(ps[i])[1] = name}
    IN  IF hits = {} THEN << >>
        ELSE <<SearchPair(ps[CHOOSE i \in hits : \A j \in hits : i <= j])[2]>>

SlugKey == <<"s", "l", "u", "g">>

(* --------------------------- getVideoEmbedUrl -------------------------- *)

EmbedMarker ==
    <<"y","o","u","t","u","b","e",".","c","o","m","/","e","m","b","e","d","/">>

EmbedPrefix ==
    <<"h","t","t","p","s",":","/","/","w","w","w",".">> \o EmbedMarker

ShortLink == <<"y","o","u","t","u",".","b","e","/">>

VParam == <<"v","=">>

\* the characters the identifier class [^&?/] excludes
IdStop == {"&", "?", "/"}

\* the end of the longest run of identifier characters starting at j
RECURSIVE IdEnd(_, _)
IdEnd(s, j) ==
    IF j + 1 <= Len(s) /\ s[j + 1] \notin IdStop THEN IdEnd(s, j + 1) ELSE j

\* /(?:youtu\.be\/|v=)([^&?\/]+)/ tried at position i: 0 when it does not
\* match there, else the position of the identifier's first character
MatchAt(s, i) ==
    LET Try(p) == StartsAt(s, i, p) /\ i + Len(p) <= Len(s) /\ s[i + Len(p)] \notin IdStop
    IN  IF Try(ShortLink) THEN i + Len(ShortLink)
        ELSE IF Try(VParam) THEN i + Len(VParam)
        ELSE 0

\* url.match(...): << >> for null, <<identifier>> for the leftmost match
VideoIdMatch(s) ==
    LET at == {i \in 1..Len(s) : MatchAt(s, i) # 0}
    IN  IF at = {} THEN << >>
        ELSE LET i == CHOOSE k \in at : \A j \in at : k <= j
                 b == MatchAt(s, i)
             IN  <<SubSeq(s, b, IdEnd(s, b))>>

\* variant of getVideoEmbedUrl: the includes test of line 166 is missing
EmbedUrlNoPassThrough(url) ==
    LET m == VideoIdMatch(url)
    IN  IF m # << >> THEN EmbedPrefix \o m[1] ELSE url

getVideoEmbedUrl(url) ==
    IF Includes(url, EmbedMarker) THEN url
    ELSE LET m == VideoIdMatch(url)
         IN  IF m # << >> THEN EmbedPrefix \o m[1] ELSE url

(* ------------------------ formatPrice, getPriceLabel ------------------- *)

\* Number.isInteger on a count of thousandths
IsInteger(v) == v % 1000 = 0

\* Number.prototype.toFixed(2): rounded to hundredths, two decimals written
ToFixed2(v) ==
    LET cents == (v + 5) \div 10
        frac  == cents % 100
    IN  Digits(cents \div 100) \o <<".">> \o <<Head(Digits(frac \div 10)), Head(Digits(frac % 10))>>

\* variant of formatPrice: toFixed(2) whatever the value
FormatPriceAlwaysFixed(value) == ToFixed2(value)

formatPrice(value) ==
    IF IsInteger(value) THEN Digits(value \div 1000) ELSE ToFixed2(value)

\* variant of PriceValue: the legacy key is read first
PriceValueLegacyFirst(tool) ==
    IF tool.price # << >> THEN tool.price[1]
    ELSE IF tool.price_eur # << >> THEN tool.price_eur[1]
    ELSE 0

\* Number(tool.price_eur ?? tool.price ?? 0)
PriceValue(tool) ==
    IF tool.price_eur # << >> THEN tool.price_eur[1]
    ELSE IF tool.price # << >> THEN tool.price[1]
    ELSE 0

getPriceLabel(tool) ==
    LET value == PriceValue(tool)
    IN  IF value = 0 THEN <<"Free">> ELSE formatPrice(value) \o <<" EUR">>

\* the currency sign U+20AC that the detail templates write before an amount
EuroSign == "U+20AC"

\* variant of DetailPriceLine: the amount always written by toFixed(2)
DetailPriceLineFixed(tool) ==
    LET priceValue == PriceValue(tool)
    IN  IF priceValue # 0 THEN <<"Price: ", EuroSign>> \o ToFixed2(priceValue)
        ELSE <<"Free">>

\* lines 101-104: the detail page's price line
DetailPriceLine(tool) ==
    LET priceValue == PriceValue(tool)
    IN  IF priceValue # 0 THEN <<"Price: ", EuroSign>> \o formatPrice(priceValue)
        ELSE <<"Free">>

\* line 105: the purchase button's label
DetailBuyLabel(tool) ==
    LET priceValue == PriceValue(tool)
    IN  IF priceValue # 0 THEN <<"Buy (", EuroSign>> \o formatPrice(priceValue) \o <<")">>
        ELSE <<"Buy">>

(* ------------------------------ fetchTools ----------------------------- *)

\* how one fetch of data/tools.json ends: the promise rejects, the response
\* is not OK, or the response is OK and carries the file
NetOutcomes == {"reject", "http_error", "ok"}

\* lines 18-23, the try block: what it returns, or that it threw
FetchTry(net, file) ==
    IF net = "reject" THEN [raised |-> TRUE, tools |-> << >>]
    ELSE IF net = "http_error" THEN [raised |-> TRUE, tools |-> << >>]
    ELSE IF file.type = "malformed" THEN [raised |-> TRUE, tools |-> << >>]
    ELSE IF file.type = "array" THEN [raised |-> FALSE, tools |-> file.items]
    ELSE [raised |-> FALSE, tools |-> << >>]

\* variant of fetchTools: response.ok is not tested
FetchToolsIgnoresStatus(net, file) ==
    LET r == FetchTry(IF net = "http_error" THEN "ok" ELSE net, file)
    IN  IF r.raised THEN [raised |-> FALSE, tools |-> << >>] ELSE r

\* lines 16-28: the catch block turns every throw into an empty array
fetchTools(net, file) ==
    LET r == FetchTry(net, file)
    IN  IF r.raised THEN [raised |-> FALSE, tools |-> << >>] ELSE r

(* ---------------------------- the data file ---------------------------- *)

NoVideo == [kind |-> "absent", url |-> << >>]

Tool(slug, name, price_eur, price, video, features) ==
    [nul |-> FALSE, slug |-> slug, name |-> name, price_eur |-> price_eur,
     price |-> price, video |-> video, features |-> features]

\* the JSON value null as an array entry
NullEntry ==
    [nul |-> TRUE, slug |-> << >>, name |-> "", price_eur |-> << >>,
     price |-> << >>, video |-> NoVideo, features |-> "absent"]

OddSlug == <<"a", " ", "b", "&", "c", "=", "+", "%">>

\* the entries catalogues are drawn from
Pool ==
    { Tool(<<"x">>, "X", <<12000>>, << >>, NoVideo, "absent"),
      Tool(<<"x">>, "Dup", << >>, <<9500>>,
           [kind |-> "string", url |-> <<"h","t","t","p","s",":","/","/">> \o ShortLink \o <<"a","b","c","1","2","3">>],
           "array"),
      Tool(<<"X">>, "Upper", <<0>>, <<5000>>, [kind |-> "number", url |-> << >>], "absent"),
      Tool(OddSlug, "Odd", << >>, << >>, NoVideo, "string"),
      Tool(<< >>, "Empty", << >>, << >>, NoVideo, "absent"),
      Tool(<<"b", Surrogate>>, "Sur", << >>, << >>, NoVideo, "absent"),
      NullEntry }

Catalogues == UNION { [1..n -> Pool] : n \in 0..MaxLen }

\* what data/tools.json holds: text that is not JSON, a JSON value that is
\* not an array, or an array
Files ==
    { [type |-> "malformed", items |-> << >>], [type |-> "object", items |-> << >>] }
    \cup { [type |-> "array", items |-> c] : c \in Catalogues }

(* ------------------------------ the page ------------------------------- *)

\* variant of CardSearch: the slug is interpolated without encodeURIComponent
CardSearchRaw(slug) == <<"?">> \o SlugKey \o <<"=">> \o slug

\* line 48: the href of a card, the part from "?" on
CardSearch(slug) == <<"?">> \o SlugKey \o <<"=">> \o encodeURIComponent(slug)

\* window.location.search of the page: no query, a query without slug, or
\* the query of a card's link
Searches ==
    { << >>, <<"?", "r", "e", "f", "=", "1">> }
    \cup { CardSearch(t.slug) : t \in {u \in Pool : ~u.nul /\ ~EncodeThrows(u.slug)} }

Child(tag, href, title, priceText) ==
    [tag |-> tag, search |-> href, title |-> title, price |-> priceText]

\* content the page's own markup puts in the listing container
StaticChild == Child("static", << >>, "", << >>)

\* lines 39-42
NoToolsMsg == Child("msg", << >>, "No tools available yet. Check back soon!", << >>)

\* lines 46-68: the card of one tool
Card(tool) == Child("card", CardSearch(tool.slug), tool.name, getPriceLabel(tool))

MainContent(kind, name, iframe, features, priceLine, buyLabel, notice, listener) ==
    [kind |-> kind, name |-> name, iframe |-> iframe, features |-> features,
     priceLine |-> priceLine, buyLabel |-> buyLabel, notice |-> notice,
     listener |-> listener]

Message(kind) == MainContent(kind, "", << >>, "none", << >>, << >>, "none", FALSE)

\* the detail container as the page's own markup leaves it
StaticMain == Message("static")

\* line 81
NotSpecified == Message("not_specified")

\* line 87
NotFound == Message("not_found")

(* ------------------------------- state --------------------------------- *)

VARIABLES
    file,          \* what data/tools.json holds
    search,        \* window.location.search
    hasContainer,  \* the page has an element with id tools-container
    hasMain,       \* the page has an element with id tool-main
    loaded,        \* DOMContentLoaded has fired
    container,     \* children of #tools-container, in document order
    main,          \* content of #tool-main
    lpc,           \* each loadTools call: idle, awaiting, done, threw
    lnet,          \* how each loadTools call's fetch ended ("none" before)
    lres,          \* what fetchTools gave each loadTools call
    lfetches,      \* fetches issued by loadTools calls
    dpc,           \* the loadToolDetail call: idle, awaiting, done, threw
    dnet,          \* how its fetch ended ("none" before)
    dres,          \* what fetchTools gave it
    dfetches       \* fetches it issued

vars ==
    <<file, search, hasContainer, hasMain, loaded, container, main,
      lpc, lnet, lres, lfetches, dpc, dnet, dres, dfetches>>

env == <<file, search, hasContainer, hasMain>>

listing == <<container, lpc, lnet, lres, lfetches>>

detail == <<main, dpc, dnet, dres, dfetches>>

Calls == 1..MaxCalls

NoResult == [raised |-> FALSE, tools |-> << >>]

Init ==
    /\ file \in Files
    /\ search \in Searches
    /\ hasContainer \in BOOLEAN
    /\ hasMain \in BOOLEAN
    /\ loaded = FALSE
    /\ container \in (IF hasContainer THEN {<< >>, <<StaticChild>>} ELSE {<< >>})
    /\ main = StaticMain
    /\ lpc = [c \in Calls |-> "idle"]
    /\ lnet = [c \in Calls |-> "none"]
    /\ lres = [c \in Calls |-> NoResult]
    /\ lfetches = 0
    /\ dpc = "idle"
    /\ dnet = "none"
    /\ dres = NoResult
    /\ dfetches = 0

(* ------------------------------ loadTools ------------------------------ *)

\* variant of LoadToolsStart: the container is not tested for absence
LoadToolsStartNoGuard(c) ==
    /\ container' = << >>
    /\ lpc' = [lpc EXCEPT ![c] = "awaiting"]
    /\ lfetches' = lfetches + 1
    /\ UNCHANGED <<lnet, lres>>

\* lines 34-37: up to the await
LoadToolsStart(c) ==
    /\ IF ~hasContainer
       THEN /\ lpc' = [lpc EXCEPT ![c] = "done"]
            /\ UNCHANGED <<container, lfetches>>
       ELSE /\ container' = << >>
            /\ lpc' = [lpc EXCEPT ![c] = "awaiting"]
            /\ lfetches' = lfetches + 1
    /\ UNCHANGED <<lnet, lres>>

\* tool.slug of null raises TypeError, encodeURIComponent may raise URIError
CardThrows(tool) == tool.nul \/ EncodeThrows(tool.slug)

\* the first entry whose card cannot be built, Len(tools) + 1 when none
FirstThrow(tools) ==
    LET bad == {i \in 1..Len(tools) : CardThrows(tools[i])}
    IN  IF bad = {} THEN Len(tools) + 1
        ELSE CHOOSE i \in bad : \A j \in bad : i <= j

\* lines 45-69: the cards forEach appends before it ends or raises
RenderCards(tools) ==
    [i \in 1..(FirstThrow(tools) - 1) |-> Card(tools[i])]

\* lines 37-70: from the await to the end
LoadToolsResume(c, net) ==
    /\ lpc[c] = "awaiting"
    /\ LET r == fetchTools(net, file)
       IN  /\ lnet' = [lnet EXCEPT ![c] = net]
           /\ lres' = [lres EXCEPT ![c] = r]
           /\ IF r.raised
              THEN /\ lpc' = [lpc EXCEPT ![c] = "threw"]
                   /\ UNCHANGED container
              ELSE IF Len(r.tools) = 0
              THEN /\ container' = Append(container, NoToolsMsg)
                   /\ lpc' = [lpc EXCEPT ![c] = "done"]
              ELSE /\ container' = container \o RenderCards(r.tools)
                   /\ lpc' = [lpc EXCEPT ![c] =
                                 IF FirstThrow(r.tools) <= Len(r.tools) THEN "threw" ELSE "done"]
    /\ UNCHANGED <<lfetches, env, loaded, detail>>

(* ---------------------------- loadToolDetail --------------------------- *)

\* lines 78-80: the slug parameter is missing or empty
SlugMissing ==
    LET slug == ParamsGet(search, SlugKey)
    IN  slug = << >> \/ slug[1] = << >>

\* lines 76-84: up to the await
LoadToolDetailStart ==
    /\ IF ~hasMain
       THEN /\ dpc' = "done"
            /\ UNCHANGED <<main, dfetches>>
       ELSE IF SlugMissing
       THEN /\ main' = NotSpecified
            /\ dpc' = "done"
            /\ UNCHANGED dfetches
       ELSE /\ dpc' = "awaiting"
            /\ dfetches' = dfetches + 1
            /\ UNCHANGED main
    /\ UNCHANGED <<dnet, dres>>

\* variant of Find: the last entry with the slug is taken
FindLast(tools, slug) ==
    LET nulls == {i \in 1..Len(tools) : tools[i].nul}
        hits  == {i \in 1..Len(tools) : ~tools[i].nul /\ tools[i].slug = slug}
    IN  IF nulls # {} THEN [raised |-> TRUE, idx |-> 0]
        ELSE IF hits = {} THEN [raised |-> FALSE, idx |-> 0]
        ELSE [raised |-> FALSE, idx |-> CHOOSE i \in hits : \A j \in hits : i >= j]

\* line 85, tools.find((t) => t.slug === slug): the index found (0 for
\* undefined), or that reading t.slug of null raised
Find(tools, slug) ==
    LET stops == {i \in 1..Len(tools) : tools[i].nul \/ tools[i].slug = slug}
    IN  IF stops = {} THEN [raised |-> FALSE, idx |-> 0]
        ELSE LET i == CHOOSE k \in stops : \A j \in stops : k <= j
             IN  IF tools[i].nul THEN [raised |-> TRUE, idx |-> 0]
                 ELSE [raised |-> FALSE, idx |-> i]

\* lines 91-100: url.includes of a non-string and features.map of a string
\* raise TypeError
DetailThrows(tool) == tool.video.kind = "number" \/ tool.features = "string"

\* lines 91-139: the detail markup, its notice hidden, its button listening
DetailOf(tool) ==
    MainContent("detail", tool.name,
                IF tool.video.kind = "string" THEN <<getVideoEmbedUrl(tool.video.url)>> ELSE << >>,
                IF tool.features = "array" THEN "list" ELSE "fallback",
                DetailPriceLine(tool), DetailBuyLabel(tool), "hidden", TRUE)

\* lines 84-140: from the await to the end
LoadToolDetailResume(net) ==
    /\ dpc = "awaiting"
    /\ LET r    == fetchTools(net, file)
           slug == ParamsGet(search, SlugKey)[1]
           f    == Find(r.tools, slug)
       IN  /\ dnet' = net
           /\ dres' = r
           /\ IF r.raised \/ f.raised
              THEN dpc' = "threw" /\ UNCHANGED main
              ELSE IF f.idx = 0
              THEN dpc' = "done" /\ main' = NotFound
              ELSE IF DetailThrows(r.tools[f.idx])
              THEN dpc' = "threw" /\ UNCHANGED main
              ELSE dpc' = "done" /\ main' = DetailOf(r.tools[f.idx])
    /\ UNCHANGED <<dfetches, env, loaded, listing>>

\* variant of ClickBuy: the listener toggles the notice
ClickBuyToggle ==
    /\ main.kind = "detail"
    /\ main.listener
    /\ main' = [main EXCEPT !.notice = IF main.notice = "hidden" THEN "visible" ELSE "hidden"]
    /\ UNCHANGED <<dpc, dnet, dres, dfetches, env, loaded, listing>>

\* lines 136-138: the purchase button's click listener
ClickBuy ==
    /\ main.kind = "detail"
    /\ main.listener
    /\ main' = [main EXCEPT !.notice = "visible"]
    /\ UNCHANGED <<dpc, dnet, dres, dfetches, env, loaded, listing>>

(* ------------------------------ the script ----------------------------- *)

\* lines 185-188: both renderers run to their first await
DOMContentLoaded ==
    /\ ~loaded
    /\ loaded' = TRUE
    /\ LoadToolsStart(1)
    /\ LoadToolDetailStart
    /\ UNCHANGED env

\* a further invocation of loadTools on the loaded page
LoadToolsAgain(c) ==
    /\ loaded
    /\ c > 1
    /\ lpc[c] = "idle"
    /\ lpc[c - 1] # "idle"
    /\ LoadToolsStart(c)
    /\ UNCHANGED <<env, loaded, detail>>

Next ==
    \/ DOMContentLoaded
    \/ \E c \in Calls, net \in NetOutcomes : LoadToolsResume(c, net)
    \/ \E net \in NetOutcomes : LoadToolDetailResume(net)
    \/ ClickBuy

Spec == Init /\ [][Next]_vars

NextRepeat ==
    \/ Next
    \/ \E c \in Calls : LoadToolsAgain(c)

SpecRepeat == Init /\ [][NextRepeat]_vars

(* ----------------- one-tool pages: prices and video URLs --------------- *)

\* thousandths a price carries after its whole part; none ends in 5, where
\* toFixed's rounding follows the binary expansion of the number
Fracs == {0, 1, 4, 500, 996, 999}

PriceVals == { w * 1000 + f : w \in 0..MaxWhole, f \in Fracs }

OptPrices == { << >> } \cup { <<v>> : v \in PriceVals }

\* a page holding both containers, opened on the only tool of the file
OneToolInit(tools) ==
    /\ file \in { [type |-> "array", items |-> <<t>>] : t \in tools }
    /\ search = CardSearch(<<"x">>)
    /\ hasContainer = TRUE
    /\ hasMain = TRUE
    /\ loaded = FALSE
    /\ container = << >>
    /\ main = StaticMain
    /\ lpc = [c \in Calls |-> "idle"]
    /\ lnet = [c \in Calls |-> "none"]
    /\ lres = [c \in Calls |-> NoResult]
    /\ lfetches = 0
    /\ dpc = "idle"
    /\ dnet = "none"
    /\ dres = NoResult
    /\ dfetches = 0

InitPrice ==
    OneToolInit({ Tool(<<"x">>, "X", pe, p, NoVideo, "absent") : pe \in OptPrices, p \in OptPrices })

SpecPrice == InitPrice /\ [][Next]_vars

\* the fragments video URLs are assembled from
UrlToks ==
    { <<"h","t","t","p","s",":","/","/">>,
      <<"w","w","w",".","y","o","u","t","u","b","e",".","c","o","m","/","w","a","t","c","h">>,
      <<"w","w","w",".">> \o EmbedMarker,
      ShortLink,
      VParam,
      <<"a","b","c","1","2","3">>,
      <<"t","=","5">>,
      <<"&">>, <<"?">>, <<"/">> }

Urls ==
    { Flatten(ts) : ts \in UNION { [1..n -> UrlToks] : n \in 1..MaxUrlToks } }

InitVideo ==
    OneToolInit({ Tool(<<"x">>, "X", << >>, << >>, [kind |-> "string", url |-> u], "absent") : u \in Urls })

SpecVideo == InitVideo /\ [][Next]_vars

(* ------------------------------- claims -------------------------------- *)

\* what a call that received `result` from its fetch of outcome `net` must
\* have been given: the file's array when the fetch was OK and the file is
\* an array, the empty array otherwise, and never a raised error
FetchedAsClaimed(net, result) ==
    /\ ~result.raised
    /\ result.tools = (IF net = "ok" /\ file.type = "array" THEN file.items ELSE << >>)

\* C1: fetchTools never propagates an error: on a network rejection, a
\* non-OK status, a body that is not JSON or a JSON value that is not an
\* array it resolves to the empty array, and on an OK response carrying an
\* array it resolves to exactly that array, entries and order unchanged.
C1_FetchNeverRaises ==
    /\ \A c \in Calls : lnet[c] # "none" => FetchedAsClaimed(lnet[c], lres[c])
    /\ dnet # "none" => FetchedAsClaimed(dnet, dres)

\* one renderer was handed the whole two-entry array, the other an empty
\* array after a non-OK response to the same file
C1_Witness ==
    /\ file.type = "array"
    /\ Len(file.items) = 2
    /\ lnet[1] = "ok"
    /\ lres[1].tools = file.items
    /\ dnet = "http_error"
    /\ dres.tools = << >>

\* C2: a single completed call of loadTools on a present container leaves
\* exactly one card per catalogue entry, in catalogue order, the i-th card
\* titled with the i-th entry's name and linking to a query whose slug
\* parameter decodes to the i-th entry's slug; for an empty catalogue the
\* container holds no card and exactly one no-tools paragraph.
C2_OneCardPerEntry ==
    (hasContainer /\ lpc[1] = "done") =>
        LET C == lres[1].tools
        IN  IF C = << >> THEN container = <<NoToolsMsg>>
            ELSE /\ Len(container) = Len(C)
                 /\ \A i \in 1..Len(C) :
                       /\ container[i].tag = "card"
                       /\ container[i].title = C[i].name
                       /\ ParamsGet(container[i].search, SlugKey) = <<C[i].slug>>

\* a completed listing of two tools, one of them with a slug full of
\* characters that have to be escaped
C2_Witness ==
    /\ lpc[1] = "done"
    /\ Len(container) = 2
    /\ container[1].tag = "card"
    /\ \E i \in 1..2 : lres[1].tools[i].slug = OddSlug

\* C3: every run of loadTools and of loadToolDetail ends in a rendered
\* state and never in a thrown failure, whatever array the fetch delivers
\* (entries that are null, optional fields of the wrong type).
C3_NeverThrows ==
    /\ \A c \in Calls : lpc[c] # "threw"
    /\ dpc # "threw"

\* the entries of catalogue C whose slug is exactly p
Matches(C, p) == {i \in 1..Len(C) : ~C[i].nul /\ C[i].slug = p}

\* the detail view shows the first entry of C whose slug is p
ShowsFirstMatch(C, p) ==
    \E i \in Matches(C, p) :
        /\ \A j \in Matches(C, p) : i <= j
        /\ main.kind = "detail"
        /\ main.name = C[i].name

\* C4 as stated: a completed loadToolDetail on a present container shows
\* "Tool not specified", without fetching, if the slug parameter is absent;
\* "Tool not found" if no entry of the fetched catalogue has exactly that
\* slug; and otherwise the detail view of the first entry with that slug.
C4_Original ==
    (hasMain /\ dpc = "done") =>
        LET p == ParamsGet(search, SlugKey)
        IN  IF p = << >> THEN main = NotSpecified /\ dfetches = 0
            ELSE IF Matches(dres.tools, p[1]) = {} THEN main = NotFound
            ELSE ShowsFirstMatch(dres.tools, p[1])

\* C4 amended: the parameter counts as unspecified when it is absent or
\* empty; otherwise a completed run shows "Tool not found" when no entry has
\* exactly that slug and else the first entry with it; a run that raised
\* (a null entry before the first match, or a matched entry whose video URL
\* is not a string or whose features are a string) left the container as
\* it was.
C4_Amended ==
    /\ (hasMain /\ dpc = "done") =>
          LET p == ParamsGet(search, SlugKey)
          IN  IF p = << >> \/ p[1] = << >> THEN main = NotSpecified /\ dfetches = 0
              ELSE /\ dfetches = 1
                   /\ IF Matches(dres.tools, p[1]) = {} THEN main = NotFound
                      ELSE ShowsFirstMatch(dres.tools, p[1])
    /\ (hasMain /\ dpc = "threw") =>
          LET p == ParamsGet(search, SlugKey)[1]
              C == dres.tools
          IN  /\ main = StaticMain
              /\ \/ \E n \in 1..Len(C) : C[n].nul /\ \A j \in Matches(C, p) : n < j
                 \/ \E i \in Matches(C, p) :
                       /\ \A j \in Matches(C, p) : i <= j
                       /\ C[i].video.kind = "number" \/ C[i].features = "string"

\* two entries share the requested slug under different names and the
\* detail view shows the first one
C4_Witness ==
    /\ dpc = "done"
    /\ main.kind = "detail"
    /\ Len(dres.tools) = 2
    /\ dres.tools[1].slug = dres.tools[2].slug
    /\ dres.tools[1].name # dres.tools[2].name
    /\ main.name = dres.tools[1].name

DigitChars == <<"0", "1", "2", "3", "4", "5", "6", "7", "8", "9">>

IsDigits(a) == a # << >> /\ \A i \in 1..Len(a) : \E d \in 1..10 : a[i] = DigitChars[d]

\* the natural number a string of digits writes
RECURSIVE ParseNat(_)
ParseNat(a) ==
    IF a = << >> THEN 0
    ELSE ParseNat(SubSeq(a, 1, Len(a) - 1)) * 10
         + ((CHOOSE d \in 1..10 : a[Len(a)] = DigitChars[d]) - 1)

\* text `a` writes the price of v thousandths: digits alone that read v when
\* v is whole, else digits, a point and exactly two digits that read v
\* rounded to hundredths
WritesAmount(a, v) ==
    IF v % 1000 = 0
    THEN IsDigits(a) /\ ParseNat(a) * 1000 = v
    ELSE /\ Len(a) >= 4
         /\ a[Len(a) - 2] = "."
         /\ IsDigits(SubSeq(a, 1, Len(a) - 3))
         /\ IsDigits(SubSeq(a, Len(a) - 1, Len(a)))
         /\ LET cents == ParseNat(SubSeq(a, 1, Len(a) - 3)) * 100
                         + ParseNat(SubSeq(a, Len(a) - 1, Len(a)))
            IN  cents * 10 - v \in -5..5

\* C5: the listing's price label is "Free" when the price is zero or
\* absent, and otherwise the amount followed by the currency unit, a whole
\* amount written without a decimal point and any other with exactly two
\* decimals; when price_eur and price are both present, price_eur decides.
C5_PriceLabel ==
    (lpc[1] = "done" /\ Len(container) = 1 /\ container[1].tag = "card") =>
        LET t   == lres[1].tools[1]
            lab == container[1].price
            v   == IF t.price_eur # << >> THEN t.price_eur[1]
                   ELSE IF t.price # << >> THEN t.price[1]
                   ELSE 0
        IN  IF v = 0 THEN lab = <<"Free">>
            ELSE /\ Len(lab) >= 2
                 /\ lab[Len(lab)] = " EUR"
                 /\ WritesAmount(SubSeq(lab, 1, Len(lab) - 1), v)

\* both keys present with different values, the canonical one fractional
C5_Witness ==
    /\ lpc[1] = "done"
    /\ Len(container) = 1
    /\ Len(lres[1].tools) = 1
    /\ lres[1].tools[1].price_eur = <<9500>>
    /\ lres[1].tools[1].price = <<12000>>
    /\ container[1].price = <<"9", ".", "5", "0", " EUR">>

\* the listing card and the detail view of the same tool are both rendered
BothRendered ==
    /\ lpc[1] = "done"
    /\ Len(container) = 1
    /\ container[1].tag = "card"
    /\ dpc = "done"
    /\ main.kind = "detail"

\* C6 as stated: the detail page shows "Free" and "Buy" exactly when the
\* listing label is "Free", and otherwise "Price: <amount>" and
\* "Buy (<amount>)" with the amount the listing shows before its unit, so
\* that a price of 12 gives "12 EUR", "Price: 12" and "Buy (12)".
C6_Original ==
    BothRendered =>
        LET lab    == container[1].price
            amount == SubSeq(lab, 1, Len(lab) - 1)
        IN  IF lab = <<"Free">>
            THEN main.priceLine = <<"Free">> /\ main.buyLabel = <<"Buy">>
            ELSE /\ main.priceLine = <<"Price: ">> \o amount
                 /\ main.buyLabel = <<"Buy (">> \o amount \o <<")">>

\* C6 amended: as stated, except that the detail page writes the euro sign
\* before the amount: "Price: (euro)<amount>" and "Buy ((euro)<amount>)".
C6_Amended ==
    BothRendered =>
        LET lab    == container[1].price
            amount == SubSeq(lab, 1, Len(lab) - 1)
        IN  IF lab = <<"Free">>
            THEN main.priceLine = <<"Free">> /\ main.buyLabel = <<"Buy">>
            ELSE /\ main.priceLine = <<"Price: ", "U+20AC">> \o amount
                 /\ main.buyLabel = <<"Buy (", "U+20AC">> \o amount \o <<")">>

\* the catalogue [{slug: "x", name: "X", price_eur: 12}] on both pages
C6_Witness ==
    /\ BothRendered
    /\ lres[1].tools[1].price_eur = <<12000>>
    /\ lres[1].tools[1].price = << >>
    /\ container[1].price = <<"1", "2", " EUR">>
    /\ main.priceLine = <<"Price: ", "U+20AC", "1", "2">>
    /\ main.buyLabel = <<"Buy (", "U+20AC", "1", "2", ")">>

\* what one call of loadTools leaves in the container for catalogue C
SingleCallContent(C) ==
    IF C = << >> THEN <<NoToolsMsg>>
    ELSE [i \in 1..Len(C) |-> Child("card", CardSearch(C[i].slug), C[i].name, getPriceLabel(C[i]))]

\* C7: once every started call of loadTools has completed, whether the
\* calls followed one another or overlapped while awaiting the fetch, the
\* container holds what a single call produces for the same catalogue.
C7_Idempotent ==
    ( /\ hasContainer
      /\ lpc[1] = "done"
      /\ \A c \in Calls : lpc[c] \in {"idle", "done"}
      /\ \A c \in Calls : lpc[c] = "done" => lres[c] = lres[1] )
    => container = SingleCallContent(lres[1].tools)

\* C8: the purchase notice is hidden when the detail view is rendered, a
\* click on the purchase button makes it visible, once visible it stays
\* visible, and a click changes nothing but the notice's visibility.
C8_NoticeOneWay ==
    [][ /\ (main.kind # "detail" /\ main'.kind = "detail") => main'.notice = "hidden"
        /\ ClickBuy =>
              /\ main'.notice = "visible"
              /\ main' = [main EXCEPT !.notice = "visible"]
              /\ UNCHANGED <<env, loaded, listing, dpc, dnet, dres, dfetches>>
        /\ (main.kind = "detail" /\ main.notice = "visible") =>
              (main'.kind = "detail" /\ main'.notice = "visible") ]_vars

\* the notice of a rendered detail view has been revealed
C8_Witness ==
    /\ dpc = "done"
    /\ main.kind = "detail"
    /\ main.notice = "visible"

\* what loadTools, run alone with the result `r` of its own fetch, leaves
\* in a container: the cards appended up to the end or to the first entry
\* that raises, or the no-tools paragraph
ListingAlone(r) ==
    IF r.tools = << >> THEN <<NoToolsMsg>>
    ELSE LET ok == {n \in 0..Len(r.tools) :
                      \A i \in 1..n : ~r.tools[i].nul /\ ~EncodeThrows(r.tools[i].slug)}
             n  == CHOOSE k \in ok : \A j \in ok : k >= j
         IN  [i \in 1..n |-> Child("card", CardSearch(r.tools[i].slug), r.tools[i].name,
                                   getPriceLabel(r.tools[i]))]

\* what loadToolDetail, run alone with the result `r` of its own fetch,
\* leaves in its container once it has ended
DetailAlone(r) ==
    LET p == ParamsGet(search, SlugKey)
    IN  IF p = << >> \/ p[1] = << >> THEN main = NotSpecified
        ELSE IF dpc = "threw" THEN main = StaticMain
        ELSE IF Matches(r.tools, p[1]) = {} THEN main = NotFound
        ELSE ShowsFirstMatch(r.tools, p[1])

\* C9: the two renderers started at DOMContentLoaded do not interfere:
\* whatever the order of their fetch completions, the listing container
\* changes only in steps of loadTools and the detail container only in
\* steps of loadToolDetail and its button, each container ends as its
\* renderer alone would leave it for its own fetch result, and a renderer
\* whose container is absent issues no fetch and changes nothing.
C9_NoInterference ==
    /\ [](/\ (hasContainer /\ lpc[1] \in {"done", "threw"}) => container = ListingAlone(lres[1])
          /\ (hasMain /\ dpc \in {"done", "threw"}) => DetailAlone(dres)
          /\ ~hasContainer => (lfetches = 0 /\ container = << >> /\ lnet[1] = "none")
          /\ ~hasMain => (dfetches = 0 /\ main = StaticMain /\ dnet = "none"))
    /\ [][ /\ container' # container => lpc' # lpc
           /\ main' # main => (dpc' # dpc \/ ClickBuy)
           /\ lpc' # lpc => (loaded' # loaded \/ UNCHANGED detail)
           /\ dpc' # dpc => (loaded' # loaded \/ UNCHANGED listing) ]_vars

\* both containers present, both renderers done, their fetches of the same
\* file having ended differently
C9_Witness ==
    /\ hasContainer
    /\ hasMain
    /\ lpc[1] = "done"
    /\ dpc = "done"
    /\ lnet[1] = "ok"
    /\ dnet = "http_error"
    /\ Len(container) = 2
    /\ container[1].tag = "card"
    /\ main = NotFound

HttpsShortAbc ==
    <<"h","t","t","p","s",":","/","/">> \o ShortLink \o <<"a","b","c","1","2","3">>

\* the identifier the short-link or v= pattern extracts from url at its
\* leftmost match is `id`
ExtractsId(url, id) ==
    LET stop == {"&", "?", "/"}
        At(i, pre) ==
            /\ StartsAt(url, i, pre \o id)
            /\ id # << >>
            /\ \A k \in 1..Len(id) : id[k] \notin stop
            /\ LET e == i + Len(pre) + Len(id)
               IN  e > Len(url) \/ url[e] \in stop
        Starts(i) ==
            \E pre \in {ShortLink, VParam} :
                /\ StartsAt(url, i, pre)
                /\ i + Len(pre) <= Len(url)
                /\ url[i + Len(pre)] \notin stop
    IN  \E i \in 1..Len(url) :
            /\ \E pre \in {ShortLink, VParam} : At(i, pre)
            /\ \A j \in 1..(i - 1) : ~Starts(j)

\* C10: getVideoEmbedUrl leaves a URL holding the embed path unchanged,
\* rewrites a URL matching the short-link or the v= pattern to the embed
\* URL of the extracted identifier (https://youtu.be/abc123 gives
\* https://www.youtube.com/embed/abc123), leaves every other URL unchanged,
\* and applied to its own result returns that result.
C10_EmbedUrl ==
    (dpc = "done" /\ main.kind = "detail") =>
        LET url == dres.tools[1].video.url
            out == main.iframe[1]
            matches == \E i \in 1..Len(url), pre \in {ShortLink, VParam} :
                          /\ StartsAt(url, i, pre)
                          /\ i + Len(pre) <= Len(url)
                          /\ url[i + Len(pre)] \notin {"&", "?", "/"}
        IN  /\ Includes(url, EmbedMarker) => out = url
            /\ (~Includes(url, EmbedMarker) /\ matches) =>
                  \E n \in 1..Len(url) :
                      /\ Len(out) = Len(EmbedPrefix) + n
                      /\ SubSeq(out, 1, Len(EmbedPrefix)) = EmbedPrefix
                      /\ ExtractsId(url, SubSeq(out, Len(EmbedPrefix) + 1, Len(out)))
            /\ (~Includes(url, EmbedMarker) /\ ~matches) => out = url
            /\ url = HttpsShortAbc => out = EmbedPrefix \o <<"a","b","c","1","2","3">>
            /\ getVideoEmbedUrl(out) = out

\* the short link with identifier abc123 was rewritten for the iframe
C10_Witness ==
    /\ dpc = "done"
    /\ main.kind = "detail"
    /\ dres.tools[1].video.url = HttpsShortAbc
    /\ main.iframe = <<EmbedPrefix \o <<"a","b","c","1","2","3">>>>
====
